---- MODULE Spec2Model ----
(***************************************************************************)
(* Merge request approvals service of go-gitlab                            *)
(* (merge_request_approvals.go).                                           *)
(*                                                                         *)
(* The service holds one client reference.  Each of its five methods runs  *)
(* parseID, then client.NewRequest, then client.Do, and returns.  parseID, *)
(* pathEscape, client.NewRequest and client.Do live outside the file: the  *)
(* two client methods are collaborators whose outcome is a nondeterministic*)
(* choice, and every invocation of a collaborator is recorded in the       *)
(* calling goroutine's trace.                                              *)
(*                                                                         *)
(* Strings that the file builds are sequences of pieces (a piece is a      *)
(* literal of the format string or one character of an argument);          *)
(* concatenation is \o.  Pointers are names: Nil, or an address of Addrs.  *)
(***************************************************************************)
EXTENDS Integers, Sequences, FiniteSets, TLC

\* ------------------------------------------------------------------ bounds
\* Merge request numbers are 1..MaxMR.
MaxMR == 1

\* Goroutines that call the service concurrently.
Goroutines == {"g1", "g2"}
\* Heap addresses for result records: one live record per goroutine.
Addrs == {"m1", "m2"}

Nil == "nil"

\* ------------------------------------------------------------------ inputs
\* pid interface{}: an int, a string, or a value of another type.
PIDs == {[int |-> 12], [str |-> <<"g", "/", "p", ".", "x">>], [other |-> "1.5"]}
MRs == 1..MaxMR
\* opt: a nil options pointer, or options with every field unset (a nil or
\* empty SHA, empty approver lists).
Opts == {Nil, "empty"}
\* options ...OptionFunc
OptionFuncs == {<<>>, <<"WithSudo">>}

Operations == {"ApproveMergeRequest", "UnapproveMergeRequest",
               "ChangeApprovalConfiguration", "ChangeAllowedApprovers",
               "ChangeProjectMergeRequestApprovalConfiguration"}

\* -------------------------------------------------------------- collaborators
Digit(d) == <<"0", "1", "2", "3", "4", "5", "6", "7", "8", "9">>[d + 1]

RECURSIVE Itoa(_)
\* strconv.Itoa and fmt's %d on a non-negative int: the decimal digits.
Itoa(n) == IF n < 10 THEN <<Digit(n)>> ELSE Itoa(n \div 10) \o <<Digit(n % 10)>>

\* parseID(id interface{}) (string, error)
parseID(pid) ==
    IF "int" \in DOMAIN pid THEN [project |-> Itoa(pid.int), err |-> Nil]
    ELSE IF "str" \in DOMAIN pid THEN [project |-> pid.str, err |-> Nil]
    ELSE [project |-> <<>>, err |-> "invalid ID type"]

RECURSIVE pathEscape(_)
\* pathEscape(s string) string: url.PathEscape, then "." replaced by "%2E".
pathEscape(s) ==
    IF s = <<>> THEN <<>>
    ELSE LET c == Head(s)
             e == IF c = "/" THEN <<"%", "2", "F">>
                  ELSE IF c = "." THEN <<"%", "2", "E">>
                  ELSE <<c>>
         IN e \o pathEscape(Tail(s))

NilReq == [nil |-> TRUE]

\* client.NewRequest(method, path, opt, options) (*Request, error): builds the
\* request from what it is given, or fails.
NewRequestOutcomes(method, u, opt, options) ==
    { [req |-> [method |-> method, u |-> u, opt |-> opt, options |-> options],
       err |-> Nil],
      [req |-> NilReq, err |-> "NewRequest failed"] }

\* What the server answers to a request, decoded in full or in part.
Decoded(req) == <<"decoded", req.method, req.u>>
Partial(req) == <<"partial", req.method, req.u>>
Zero == <<"zero">>

\* client.Do(req, v) (*Response, error): sends the request and decodes the
\* answer into v (when v is not nil).  wrote: what v holds afterwards, or
\* Zero when v was left untouched.
DoOutcomes(req, v) ==
    { [resp |-> "resp", err |-> Nil, wrote |-> IF v = Nil THEN Zero ELSE Decoded(req)],
      [resp |-> Nil, err |-> Nil, wrote |-> IF v = Nil THEN Zero ELSE Decoded(req)],
      [resp |-> "resp", err |-> "decode failed",
       wrote |-> IF v = Nil THEN Zero ELSE Partial(req)],
      [resp |-> Nil, err |-> "transport failed", wrote |-> Zero] }

\* ------------------------------------------------------------------- state
VARIABLES
    service,        \* the MergeRequestApprovalsService: its client field
    call,           \* per goroutine: the call in progress and its locals
    trace,          \* per goroutine: the collaborator invocations of the call
    heap            \* result records allocated by new(...), by address

vars == <<service, call, trace, heap>>

Idle == [pc |-> "idle", op |-> Nil, pid |-> [other |-> Nil], mr |-> 0, opt |-> Nil,
         options |-> <<>>, project |-> <<>>, u |-> <<>>, req |-> NilReq,
         m |-> Nil, ret |-> <<>>]

Init ==
    /\ service = [client |-> "client"]
    /\ call = [g \in Goroutines |-> Idle]
    /\ trace = [g \in Goroutines |-> <<>>]
    /\ heap = [a \in {} |-> Zero]

\* ----------------------------------------------------------------- helpers
\* A collaborator invocation as the trace records it.
Event(fn, in, out) == [fn |-> fn, in |-> in, out |-> out]

\* Assign locals and move to the next statement, having invoked a collaborator.
Goto(g, pc, locals, ev) ==
    /\ call' = [call EXCEPT ![g] = ([pc |-> pc] @@ locals) @@ @]
    /\ trace' = [trace EXCEPT ![g] = Append(@, ev)]

\* A return statement.
ReturnWith(g, ret, locals, ev) ==
    Goto(g, "returned", [ret |-> ret] @@ locals, ev)

\* Mutant: one result record shared by every call.
newShared(h) == "m1"

\* new(T): a fresh address.
new(h) == CHOOSE a \in Addrs : a \notin DOMAIN h

\* The heap after new(T) at address a and client.Do's decoding into it.
Store(h, a, value) ==
    [x \in DOMAIN h \cup {a} |-> IF x = a THEN value ELSE h[x]]

Free(h, a) == [x \in DOMAIN h \ {a} |-> h[x]]

\* ---------------------------------------------------------------- the caller
\* A goroutine calls one of the five methods with arguments of its choice.
\* UnapproveMergeRequest takes no opt; the project-level method takes no
\* merge request number (recorded as 0).
Call(g) ==
    /\ call[g].pc = "idle"
    /\ \E op \in Operations, pid \in PIDs, options \in OptionFuncs :
        \E mr \in IF op = "ChangeProjectMergeRequestApprovalConfiguration"
                  THEN {0} ELSE MRs :
        \E opt \in IF op = "UnapproveMergeRequest" THEN {Nil} ELSE Opts :
            call' = [call EXCEPT ![g] =
                        [pc |-> "parseID", op |-> op, pid |-> pid, mr |-> mr,
                         opt |-> opt, options |-> options] @@ Idle]
    /\ trace' = [trace EXCEPT ![g] = <<>>]
    /\ UNCHANGED <<service, heap>>

\* The caller takes the returned values and, after use, discards them.
Return(g) ==
    /\ call[g].pc = "returned"
    /\ call' = [call EXCEPT ![g] = Idle]
    /\ trace' = [trace EXCEPT ![g] = <<>>]
    /\ heap' = IF call[g].m # Nil THEN Free(heap, call[g].m) ELSE heap
    /\ UNCHANGED service

\* ------------------------------------------------------ ApproveMergeRequest
ApproveMergeRequestURL(project, mr) ==
    <<"projects/">> \o pathEscape(project) \o <<"/merge_requests/">>
        \o Itoa(mr) \o <<"/approve">>

\* Mutant: the error of client.Do is swallowed.
ApproveMergeRequestResultSwallowed(m, resp, err) == <<m, resp, Nil>>

ApproveMergeRequestResult(m, resp, err) ==
    IF err # Nil THEN <<Nil, resp, err>> ELSE <<m, resp, err>>

\* ApproveMergeRequest, parseID and the path (lines 85-89).
ApproveMergeRequestParseID(g) ==
    LET c == call[g]
        r == parseID(c.pid)
        ev == Event("parseID", <<c.pid>>, <<r.project, r.err>>)
    IN /\ c.op = "ApproveMergeRequest" /\ c.pc = "parseID"
       /\ IF r.err # Nil
          THEN ReturnWith(g, <<Nil, Nil, r.err>>, [project |-> r.project], ev)
          ELSE Goto(g, "NewRequest",
                    [project |-> r.project, u |-> ApproveMergeRequestURL(r.project, c.mr)], ev)
       /\ UNCHANGED <<service, heap>>

\* ApproveMergeRequest, client.NewRequest (lines 91-94).
ApproveMergeRequestNewRequest(g) ==
    LET c == call[g]
    IN /\ c.op = "ApproveMergeRequest" /\ c.pc = "NewRequest"
       /\ \E o \in NewRequestOutcomes("POST", c.u, c.opt, c.options) :
            LET ev == Event("NewRequest", <<"POST", c.u, c.opt, c.options>>,
                            <<o.req, o.err>>)
            IN IF o.err # Nil
               THEN ReturnWith(g, <<Nil, Nil, o.err>>, [req |-> o.req], ev)
               ELSE Goto(g, "Do", [req |-> o.req], ev)
       /\ UNCHANGED <<service, heap>>

\* Mutant: the answer to an identical request is reused instead of asking
\* the server again.
ApproveMergeRequestDoCached(g) ==
    LET c == call[g]
        m == new(heap)
        cached == {h \in Goroutines \ {g} :
                    /\ call[h].pc = "returned" /\ call[h].req = c.req
                    /\ call[h].m # Nil /\ call[h].ret[3] = Nil}
    IN /\ c.op = "ApproveMergeRequest" /\ c.pc = "Do"
       /\ IF cached # {}
          THEN /\ heap' = Store(heap, m, heap[call[CHOOSE h \in cached : TRUE].m])
               /\ call' = [call EXCEPT ![g] =
                            [pc |-> "returned", m |-> m, ret |-> <<m, "resp", Nil>>] @@ @]
               /\ UNCHANGED trace
          ELSE \E o \in DoOutcomes(c.req, m) :
                /\ heap' = Store(heap, m, o.wrote)
                /\ ReturnWith(g, <<m, o.resp, o.err>>, [m |-> m],
                              Event("Do", <<c.req, m>>, <<o.resp, o.err, o.wrote>>))
       /\ UNCHANGED service

\* ApproveMergeRequest, new(MergeRequestApprovals), client.Do and the return (lines 96-102).
ApproveMergeRequestDo(g) ==
    LET c == call[g]
        m == new(heap)
    IN /\ c.op = "ApproveMergeRequest" /\ c.pc = "Do"
       /\ \E o \in DoOutcomes(c.req, m) :
            /\ heap' = Store(heap, m, o.wrote)
            /\ ReturnWith(g, ApproveMergeRequestResult(m, o.resp, o.err), [m |-> m],
                          Event("Do", <<c.req, m>>, <<o.resp, o.err, o.wrote>>))
       /\ UNCHANGED service

ApproveMergeRequest(g) ==
    \/ ApproveMergeRequestParseID(g)
    \/ ApproveMergeRequestNewRequest(g)
    \/ ApproveMergeRequestDo(g)

\* ---------------------------------------------------- UnapproveMergeRequest
UnapproveMergeRequestURL(project, mr) ==
    <<"projects/">> \o pathEscape(project) \o <<"/merge_requests/">>
        \o Itoa(mr) \o <<"/unapprove">>

\* Mutant: a failure returns a nil response, as before client.Do is reached.
UnapproveMergeRequestResultNoResponse(resp, err) ==
    IF err # Nil THEN <<Nil, err>> ELSE <<resp, err>>

\* return s.client.Do(req, nil): the pair client.Do returned.
UnapproveMergeRequestResult(resp, err) == <<resp, err>>

\* UnapproveMergeRequest, parseID and the path (lines 110-114).
UnapproveMergeRequestParseID(g) ==
    LET c == call[g]
        r == parseID(c.pid)
        ev == Event("parseID", <<c.pid>>, <<r.project, r.err>>)
    IN /\ c.op = "UnapproveMergeRequest" /\ c.pc = "parseID"
       /\ IF r.err # Nil
          THEN ReturnWith(g, <<Nil, r.err>>, [project |-> r.project], ev)
          ELSE Goto(g, "NewRequest",
                    [project |-> r.project,
                     u |-> UnapproveMergeRequestURL(r.project, c.mr)], ev)
       /\ UNCHANGED <<service, heap>>

\* UnapproveMergeRequest, client.NewRequest with a nil body (lines 116-119).
UnapproveMergeRequestNewRequest(g) ==
    LET c == call[g]
    IN /\ c.op = "UnapproveMergeRequest" /\ c.pc = "NewRequest"
       /\ \E o \in NewRequestOutcomes("POST", c.u, Nil, c.options) :
            LET ev == Event("NewRequest", <<"POST", c.u, Nil, c.options>>,
                            <<o.req, o.err>>)
            IN IF o.err # Nil
               THEN ReturnWith(g, <<Nil, o.err>>, [req |-> o.req], ev)
               ELSE Goto(g, "Do", [req |-> o.req], ev)
       /\ UNCHANGED <<service, heap>>

\* Mutant: network calls are serialised by waiting until no other call is
\* about to invoke client.Do.
UnapproveMergeRequestDoWaiting(g) ==
    LET c == call[g]
    IN /\ c.op = "UnapproveMergeRequest" /\ c.pc = "Do"
       /\ \A h \in Goroutines \ {g} : call[h].pc # "Do"
       /\ \E o \in DoOutcomes(c.req, Nil) :
            ReturnWith(g, <<o.resp, o.err>>, [m |-> Nil],
                       Event("Do", <<c.req, Nil>>, <<o.resp, o.err, o.wrote>>))
       /\ UNCHANGED <<service, heap>>

\* UnapproveMergeRequest, client.Do with a nil target (line 121).
UnapproveMergeRequestDo(g) ==
    LET c == call[g]
    IN /\ c.op = "UnapproveMergeRequest" /\ c.pc = "Do"
       /\ \E o \in DoOutcomes(c.req, Nil) :
            ReturnWith(g, UnapproveMergeRequestResult(o.resp, o.err), [m |-> Nil],
                       Event("Do", <<c.req, Nil>>, <<o.resp, o.err, o.wrote>>))
       /\ UNCHANGED <<service, heap>>

UnapproveMergeRequest(g) ==
    \/ UnapproveMergeRequestParseID(g)
    \/ UnapproveMergeRequestNewRequest(g)
    \/ UnapproveMergeRequestDo(g)

\* ---------------------------------------------- ChangeApprovalConfiguration
ChangeApprovalConfigurationURL(project, mergeRequestIID) ==
    <<"projects/">> \o pathEscape(project) \o <<"/merge_requests/">>
        \o Itoa(mergeRequestIID) \o <<"/approvals">>

\* Mutant: the response is dropped when client.Do fails.
ChangeApprovalConfigurationResultNoResponse(m, resp, err) ==
    IF err # Nil THEN <<Nil, Nil, err>> ELSE <<m, resp, err>>

ChangeApprovalConfigurationResult(m, resp, err) ==
    IF err # Nil THEN <<Nil, resp, err>> ELSE <<m, resp, err>>

\* ChangeApprovalConfiguration, parseID and the path (lines 138-142).
ChangeApprovalConfigurationParseID(g) ==
    LET c == call[g]
        r == parseID(c.pid)
        ev == Event("parseID", <<c.pid>>, <<r.project, r.err>>)
    IN /\ c.op = "ChangeApprovalConfiguration" /\ c.pc = "parseID"
       /\ IF r.err # Nil
          THEN ReturnWith(g, <<Nil, Nil, r.err>>, [project |-> r.project], ev)
          ELSE Goto(g, "NewRequest",
                    [project |-> r.project, u |-> ChangeApprovalConfigurationURL(r.project, c.mr)], ev)
       /\ UNCHANGED <<service, heap>>

\* ChangeApprovalConfiguration, client.NewRequest (lines 144-147).
ChangeApprovalConfigurationNewRequest(g) ==
    LET c == call[g]
    IN /\ c.op = "ChangeApprovalConfiguration" /\ c.pc = "NewRequest"
       /\ \E o \in NewRequestOutcomes("POST", c.u, c.opt, c.options) :
            LET ev == Event("NewRequest", <<"POST", c.u, c.opt, c.options>>,
                            <<o.req, o.err>>)
            IN IF o.err # Nil
               THEN ReturnWith(g, <<Nil, Nil, o.err>>, [req |-> o.req], ev)
               ELSE Goto(g, "Do", [req |-> o.req], ev)
       /\ UNCHANGED <<service, heap>>

\* Mutant: client.Do is tried again when it fails.
ChangeApprovalConfigurationDoRetrying(g) ==
    LET c == call[g]
        m == IF c.m # Nil THEN c.m ELSE new(heap)
    IN /\ c.op = "ChangeApprovalConfiguration" /\ c.pc = "Do"
       /\ \E o \in DoOutcomes(c.req, m) :
            LET ev == Event("Do", <<c.req, m>>, <<o.resp, o.err, o.wrote>>)
            IN /\ heap' = Store(heap, m, o.wrote)
               /\ IF o.err # Nil
                  THEN Goto(g, "Do", [m |-> m], ev)
                  ELSE ReturnWith(g, <<m, o.resp, o.err>>, [m |-> m], ev)
       /\ UNCHANGED service

\* ChangeApprovalConfiguration, new(MergeRequest), client.Do and the return (lines 149-155).
ChangeApprovalConfigurationDo(g) ==
    LET c == call[g]
        m == new(heap)
    IN /\ c.op = "ChangeApprovalConfiguration" /\ c.pc = "Do"
       /\ \E o \in DoOutcomes(c.req, m) :
            /\ heap' = Store(heap, m, o.wrote)
            /\ ReturnWith(g, ChangeApprovalConfigurationResult(m, o.resp, o.err), [m |-> m],
                          Event("Do", <<c.req, m>>, <<o.resp, o.err, o.wrote>>))
       /\ UNCHANGED service

ChangeApprovalConfiguration(g) ==
    \/ ChangeApprovalConfigurationParseID(g)
    \/ ChangeApprovalConfigurationNewRequest(g)
    \/ ChangeApprovalConfigurationDo(g)

\* --------------------------------------------------- ChangeAllowedApprovers
\* Mutant: the path of ChangeApprovalConfiguration, copied.
ChangeAllowedApproversURLCopied(project, mergeRequestIID) ==
    <<"projects/">> \o pathEscape(project) \o <<"/merge_requests/">>
        \o Itoa(mergeRequestIID) \o <<"/approvals">>

ChangeAllowedApproversURL(project, mergeRequestIID) ==
    <<"projects/">> \o pathEscape(project) \o <<"/merge_requests/">>
        \o Itoa(mergeRequestIID) \o <<"/approvers">>

\* Mutant: the record is returned beside the error.
ChangeAllowedApproversResultWithRecord(m, resp, err) == <<m, resp, err>>

ChangeAllowedApproversResult(m, resp, err) ==
    IF err # Nil THEN <<Nil, resp, err>> ELSE <<m, resp, err>>

\* ChangeAllowedApprovers, parseID and the path (lines 173-177).
ChangeAllowedApproversParseID(g) ==
    LET c == call[g]
        r == parseID(c.pid)
        ev == Event("parseID", <<c.pid>>, <<r.project, r.err>>)
    IN /\ c.op = "ChangeAllowedApprovers" /\ c.pc = "parseID"
       /\ IF r.err # Nil
          THEN ReturnWith(g, <<Nil, Nil, r.err>>, [project |-> r.project], ev)
          ELSE Goto(g, "NewRequest",
                    [project |-> r.project, u |-> ChangeAllowedApproversURL(r.project, c.mr)], ev)
       /\ UNCHANGED <<service, heap>>

\* ChangeAllowedApprovers, client.NewRequest (lines 179-182).
ChangeAllowedApproversNewRequest(g) ==
    LET c == call[g]
    IN /\ c.op = "ChangeAllowedApprovers" /\ c.pc = "NewRequest"
       /\ \E o \in NewRequestOutcomes("PUT", c.u, c.opt, c.options) :
            LET ev == Event("NewRequest", <<"PUT", c.u, c.opt, c.options>>,
                            <<o.req, o.err>>)
            IN IF o.err # Nil
               THEN ReturnWith(g, <<Nil, Nil, o.err>>, [req |-> o.req], ev)
               ELSE Goto(g, "Do", [req |-> o.req], ev)
       /\ UNCHANGED <<service, heap>>

\* ChangeAllowedApprovers, new(MergeRequest), client.Do and the return (lines 184-190).
ChangeAllowedApproversDo(g) ==
    LET c == call[g]
        m == new(heap)
    IN /\ c.op = "ChangeAllowedApprovers" /\ c.pc = "Do"
       /\ \E o \in DoOutcomes(c.req, m) :
            /\ heap' = Store(heap, m, o.wrote)
            /\ ReturnWith(g, ChangeAllowedApproversResult(m, o.resp, o.err), [m |-> m],
                          Event("Do", <<c.req, m>>, <<o.resp, o.err, o.wrote>>))
       /\ UNCHANGED service

ChangeAllowedApprovers(g) ==
    \/ ChangeAllowedApproversParseID(g)
    \/ ChangeAllowedApproversNewRequest(g)
    \/ ChangeAllowedApproversDo(g)

\* --------------------------- ChangeProjectMergeRequestApprovalConfiguration
\* The method takes no merge request number: mr is not read.
ChangeProjectMergeRequestApprovalConfigurationURL(project, mr) ==
    <<"projects/">> \o pathEscape(project) \o <<"/approvals">>

ChangeProjectMergeRequestApprovalConfigurationResult(m, resp, err) ==
    IF err # Nil THEN <<Nil, resp, err>> ELSE <<m, resp, err>>

\* ChangeProjectMergeRequestApprovalConfiguration, parseID and the path (lines 208-212).
ChangeProjectMergeRequestApprovalConfigurationParseID(g) ==
    LET c == call[g]
        r == parseID(c.pid)
        ev == Event("parseID", <<c.pid>>, <<r.project, r.err>>)
    IN /\ c.op = "ChangeProjectMergeRequestApprovalConfiguration" /\ c.pc = "parseID"
       /\ IF r.err # Nil
          THEN ReturnWith(g, <<Nil, Nil, r.err>>, [project |-> r.project], ev)
          ELSE Goto(g, "NewRequest",
                    [project |-> r.project, u |-> ChangeProjectMergeRequestApprovalConfigurationURL(r.project, c.mr)], ev)
       /\ UNCHANGED <<service, heap>>

\* Mutant: the error of client.NewRequest is not checked.
ChangeProjectMergeRequestApprovalConfigurationNewRequestUnchecked(g) ==
    LET c == call[g]
    IN /\ c.op = "ChangeProjectMergeRequestApprovalConfiguration"
       /\ c.pc = "NewRequest"
       /\ \E o \in NewRequestOutcomes("POST", c.u, c.opt, c.options) :
            Goto(g, "Do", [req |-> o.req],
                 Event("NewRequest", <<"POST", c.u, c.opt, c.options>>,
                       <<o.req, o.err>>))
       /\ UNCHANGED <<service, heap>>

\* ChangeProjectMergeRequestApprovalConfiguration, client.NewRequest (lines 214-217).
ChangeProjectMergeRequestApprovalConfigurationNewRequest(g) ==
    LET c == call[g]
    IN /\ c.op = "ChangeProjectMergeRequestApprovalConfiguration" /\ c.pc = "NewRequest"
       /\ \E o \in NewRequestOutcomes("POST", c.u, c.opt, c.options) :
            LET ev == Event("NewRequest", <<"POST", c.u, c.opt, c.options>>,
                            <<o.req, o.err>>)
            IN IF o.err # Nil
               THEN ReturnWith(g, <<Nil, Nil, o.err>>, [req |-> o.req], ev)
               ELSE Goto(g, "Do", [req |-> o.req], ev)
       /\ UNCHANGED <<service, heap>>

\* ChangeProjectMergeRequestApprovalConfiguration, new(MergeRequestApprovals), client.Do and the return (lines 219-225).
ChangeProjectMergeRequestApprovalConfigurationDo(g) ==
    LET c == call[g]
        m == new(heap)
    IN /\ c.op = "ChangeProjectMergeRequestApprovalConfiguration" /\ c.pc = "Do"
       /\ \E o \in DoOutcomes(c.req, m) :
            /\ heap' = Store(heap, m, o.wrote)
            /\ ReturnWith(g, ChangeProjectMergeRequestApprovalConfigurationResult(m, o.resp, o.err), [m |-> m],
                          Event("Do", <<c.req, m>>, <<o.resp, o.err, o.wrote>>))
       /\ UNCHANGED service

ChangeProjectMergeRequestApprovalConfiguration(g) ==
    \/ ChangeProjectMergeRequestApprovalConfigurationParseID(g)
    \/ ChangeProjectMergeRequestApprovalConfigurationNewRequest(g)
    \/ ChangeProjectMergeRequestApprovalConfigurationDo(g)

\* ------------------------------------------------------------ specification
\* One step of the call goroutine g has in progress.
Step(g) ==
    \/ ApproveMergeRequest(g)
    \/ UnapproveMergeRequest(g)
    \/ ChangeApprovalConfiguration(g)
    \/ ChangeAllowedApprovers(g)
    \/ ChangeProjectMergeRequestApprovalConfiguration(g)

Next == \E g \in Goroutines : Call(g) \/ Step(g) \/ Return(g)

Spec == Init /\ [][Next]_vars

\* Each collaborator returns and each goroutine is scheduled: a call in
\* progress takes its next step.
FairSpec == Spec /\ \A g \in Goroutines : WF_vars(Step(g))

\* ------------------------------------------------------------------ claims
Returned(g) == call[g].pc = "returned"
RecordOperations == Operations \ {"UnapproveMergeRequest"}

\* The invocations of collaborator fn in the call goroutine g has in progress.
Invocations(g, fn) == SelectSeq(trace[g], LAMBDA e : e.fn = fn)
Invoked(g, fn) == Invocations(g, fn) # <<>>
\* The error a collaborator invocation returned (the last of its results
\* but for client.Do, whose record also holds what it wrote).
ErrOf(e) == e.out[2]

\* The returned values: (record, response, error), or (response, error).
RetErr(g) == call[g].ret[Len(call[g].ret)]
RetResp(g) == call[g].ret[Len(call[g].ret) - 1]
RetRecord(g) == call[g].ret[1]

\* C1: in every operation, when parseID, client.NewRequest or client.Do fails
\* with error e the call returns exactly e, and when all three succeed it
\* returns a nil error.
C1_ErrorsPropagateUnchanged ==
    \A g \in Goroutines : Returned(g) =>
        LET t == trace[g]
        IN /\ \A i \in 1..Len(t) : ErrOf(t[i]) # Nil => RetErr(g) = ErrOf(t[i])
           /\ (Len(t) = 3 /\ \A i \in 1..3 : ErrOf(t[i]) = Nil) => RetErr(g) = Nil
           /\ RetErr(g) = Nil => (Len(t) = 3 /\ \A i \in 1..3 : ErrOf(t[i]) = Nil)

C1_Witness ==
    \E g, h \in Goroutines :
        /\ Returned(g) /\ call[g].op = "ApproveMergeRequest"
        /\ Invoked(g, "Do") /\ RetErr(g) = "decode failed"
        /\ Returned(h) /\ call[h].op = "UnapproveMergeRequest"
        /\ Invoked(h, "Do") /\ RetErr(h) = Nil

\* C2: no retries: a call invokes client.NewRequest at most once and
\* client.Do at most once, and once client.Do has been invoked (whether it
\* failed or not) the call has returned.
C2_NoRetries ==
    \A g \in Goroutines :
        /\ Len(Invocations(g, "NewRequest")) <= 1
        /\ Len(Invocations(g, "Do")) <= 1
        /\ Invoked(g, "Do") => Returned(g)

C2_Witness ==
    \E g \in Goroutines :
        /\ Returned(g) /\ call[g].op = "ChangeApprovalConfiguration"
        /\ Len(Invocations(g, "Do")) = 1
        /\ ErrOf(Invocations(g, "Do")[1]) = "transport failed"

\* The verb and the path the API documents for each operation.
DocumentedVerb(op) == IF op = "ChangeAllowedApprovers" THEN "PUT" ELSE "POST"
DocumentedPath(op, pid, mr) ==
    LET head == <<"projects/">> \o pid
        mrs == head \o <<"/merge_requests/">> \o Itoa(mr)
    IN CASE op = "ApproveMergeRequest" -> mrs \o <<"/approve">>
         [] op = "UnapproveMergeRequest" -> mrs \o <<"/unapprove">>
         [] op = "ChangeApprovalConfiguration" -> mrs \o <<"/approvals">>
         [] op = "ChangeAllowedApprovers" -> mrs \o <<"/approvers">>
         [] op = "ChangeProjectMergeRequestApprovalConfiguration" ->
                head \o <<"/approvals">>

\* C3: every request is issued with the verb and the path of its operation,
\* built from the escaped project id and the merge request number; only
\* ChangeAllowedApprovers uses PUT; requests of two different operations never
\* have the same verb and path.
C3_FixedVerbAndPath ==
    /\ \A g \in Goroutines : \A i \in 1..Len(Invocations(g, "NewRequest")) :
        LET e == Invocations(g, "NewRequest")[i]
            c == call[g]
        IN /\ e.in[1] = DocumentedVerb(c.op)
           /\ e.in[2] = DocumentedPath(c.op, pathEscape(parseID(c.pid).project), c.mr)
           /\ e.in[1] = "PUT" <=> c.op = "ChangeAllowedApprovers"
    /\ \A g, h \in Goroutines :
        (Invoked(g, "NewRequest") /\ Invoked(h, "NewRequest") /\ call[g].op # call[h].op)
            => LET e == Invocations(g, "NewRequest")[1]
                   f == Invocations(h, "NewRequest")[1]
               IN <<e.in[1], e.in[2]>> # <<f.in[1], f.in[2]>>

C3_Witness ==
    \E g, h \in Goroutines :
        /\ call[g].op = "ChangeAllowedApprovers" /\ Invoked(g, "NewRequest")
        /\ call[h].op = "ChangeApprovalConfiguration" /\ Invoked(h, "NewRequest")
        /\ call[g].pid = call[h].pid /\ "str" \in DOMAIN call[g].pid
        /\ call[g].mr = call[h].mr

\* The arguments of a call.
Arguments(g) == <<call[g].op, call[g].pid, call[g].mr, call[g].opt, call[g].options>>

\* C4: no caching and no local validation: a returned call whose
\* client.NewRequest succeeded has invoked client.Do exactly once, whatever its
\* options and whatever other calls (with the same arguments or not) were made,
\* and client.NewRequest was given the caller's opt and OptionFuncs as they are.
C4_NoCachingNoValidation ==
    \A g \in Goroutines :
        /\ (Returned(g) /\ Invoked(g, "NewRequest")
                /\ ErrOf(Invocations(g, "NewRequest")[1]) = Nil)
            => Len(Invocations(g, "Do")) = 1
        /\ \A i \in 1..Len(Invocations(g, "NewRequest")) :
            LET e == Invocations(g, "NewRequest")[i]
            IN /\ e.in[4] = call[g].options
               /\ call[g].op \in RecordOperations => e.in[3] = call[g].opt

C4_Witness ==
    \E g, h \in Goroutines :
        /\ g # h /\ Arguments(g) = Arguments(h)
        /\ call[g].op = "ApproveMergeRequest" /\ call[g].opt = Nil
        /\ Returned(g) /\ Returned(h)
        /\ Len(Invocations(g, "Do")) = 1 /\ Len(Invocations(h, "Do")) = 1
        /\ RetErr(g) = Nil /\ RetErr(h) = Nil

\* What a call running alone returns, given the results its collaborators
\* gave it (t: its trace); a record is named by what it holds.
ReturnsAlone(op, t) ==
    LET last == t[Len(t)]
        early == IF op = "UnapproveMergeRequest" THEN <<Nil, ErrOf(last)>>
                 ELSE <<Nil, Nil, ErrOf(last)>>
    IN IF last.fn # "Do" THEN early
       ELSE IF op = "UnapproveMergeRequest" THEN <<last.out[1], last.out[2]>>
       ELSE IF last.out[2] # Nil THEN <<Nil, last.out[1], last.out[2]>>
       ELSE <<last.out[3], last.out[1], last.out[2]>>

\* The returned values, with the record pointer replaced by what it points to.
ReturnedValues(g) ==
    LET r == call[g].ret
    IN IF Len(r) = 3 /\ r[1] # Nil
       THEN <<IF r[1] \in DOMAIN heap THEN heap[r[1]] ELSE <<"dangling">>, r[2], r[3]>>
       ELSE r

\* C5: calls are independent: under every interleaving a returned call holds
\* the values it would return alone, given the same collaborator results; the
\* record a call decodes into is its own (no other call in progress holds the
\* same address); the service's client reference is never written.
C5_CallsIndependent ==
    /\ service = [client |-> "client"]
    /\ \A g \in Goroutines : Returned(g) =>
            ReturnedValues(g) = ReturnsAlone(call[g].op, trace[g])
    /\ \A g \in Goroutines : call[g].m # Nil =>
            /\ call[g].m \in DOMAIN heap
            /\ \A h \in Goroutines \ {g} : call[h].m # call[g].m

C5_Witness ==
    \E g, h \in Goroutines :
        /\ g # h /\ Returned(g) /\ Returned(h)
        /\ call[g].op \in RecordOperations /\ call[h].op \in RecordOperations
        /\ RetErr(g) = Nil /\ RetErr(h) = Nil
        /\ heap[RetRecord(g)] # heap[RetRecord(h)]

\* The collaborators a call has invoked, in order.
Order(g) == [i \in 1..Len(trace[g]) |-> trace[g][i].fn]

\* C6: every operation invokes parseID, then client.NewRequest, then
\* client.Do, and stops at the first failure: nothing is invoked after a
\* failed collaborator, and a call that returns without having invoked
\* client.Do returns a nil record and a nil response.
C6_FixedOrderStopAtFirstFailure ==
    \A g \in Goroutines :
        /\ Order(g) = SubSeq(<<"parseID", "NewRequest", "Do">>, 1, Len(trace[g]))
        /\ \A i \in 1..Len(trace[g]) :
            ErrOf(trace[g][i]) # Nil => (i = Len(trace[g]) /\ Returned(g))
        /\ (Returned(g) /\ ~Invoked(g, "Do")) =>
            \A i \in 1..(Len(call[g].ret) - 1) : call[g].ret[i] = Nil

C6_Witness ==
    \E g, h \in Goroutines :
        /\ Returned(g) /\ Order(g) = <<"parseID", "NewRequest">>
        /\ call[g].op = "ChangeProjectMergeRequestApprovalConfiguration"
        /\ Returned(h) /\ Order(h) = <<"parseID">>

\* C7: in the four operations that return a record, the returned record is
\* non-nil exactly when the returned error is nil, and a returned record is
\* one that client.Do decoded in full.
C7_RecordIffNoError ==
    \A g \in Goroutines : (Returned(g) /\ call[g].op \in RecordOperations) =>
        /\ RetRecord(g) # Nil <=> RetErr(g) = Nil
        /\ RetRecord(g) # Nil =>
            (RetRecord(g) \in DOMAIN heap /\ heap[RetRecord(g)][1] = "decoded")

C7_Witness ==
    \E g, h \in Goroutines :
        /\ Returned(g) /\ call[g].op = "ChangeAllowedApprovers"
        /\ Invoked(g, "Do") /\ Invocations(g, "Do")[1].out[3][1] = "partial"
        /\ RetRecord(g) = Nil /\ RetErr(g) = "decode failed"
        /\ Returned(h) /\ call[h].op = "ChangeAllowedApprovers"
        /\ RetRecord(h) # Nil /\ RetErr(h) = Nil

\* C8: in the four operations that return a record, the returned response is
\* the one client.Do returned (nil or not) in every call that reached
\* client.Do, with a nil record beside it when client.Do failed, and is nil in
\* every call that failed before.
C8_ResponsePassedThrough ==
    \A g \in Goroutines : (Returned(g) /\ call[g].op \in RecordOperations) =>
        IF Invoked(g, "Do")
        THEN LET e == Invocations(g, "Do")[1]
             IN /\ RetResp(g) = e.out[1]
                /\ ErrOf(e) # Nil => (RetRecord(g) = Nil /\ RetErr(g) = ErrOf(e))
        ELSE RetResp(g) = Nil

C8_Witness ==
    \E g, h \in Goroutines :
        /\ Returned(g) /\ call[g].op = "ChangeApprovalConfiguration"
        /\ Invoked(g, "Do") /\ RetErr(g) = "decode failed" /\ RetResp(g) = "resp"
        /\ Returned(h) /\ call[h].op \in RecordOperations
        /\ Invoked(h, "Do") /\ RetErr(h) = "transport failed" /\ RetResp(h) = Nil

\* C9: UnapproveMergeRequest gives client.NewRequest a nil body and client.Do
\* a nil target, and once it has invoked client.Do it returns the pair
\* client.Do returned.
C9_UnapprovePassesDoThrough ==
    \A g \in Goroutines : call[g].op = "UnapproveMergeRequest" =>
        /\ \A i \in 1..Len(Invocations(g, "NewRequest")) :
            Invocations(g, "NewRequest")[i].in[3] = Nil
        /\ \A i \in 1..Len(Invocations(g, "Do")) :
            LET e == Invocations(g, "Do")[i]
            IN /\ e.in[2] = Nil
               /\ Returned(g) /\ call[g].ret = <<e.out[1], e.out[2]>>

C9_Witness ==
    \E g, h \in Goroutines :
        /\ call[g].op = "UnapproveMergeRequest" /\ Returned(g)
        /\ Invoked(g, "Do") /\ call[g].ret = <<"resp", "decode failed">>
        /\ call[h].op = "UnapproveMergeRequest" /\ Returned(h)
        /\ Invoked(h, "Do") /\ call[h].ret = <<"resp", Nil>>

Pending(g) == call[g].pc \in {"parseID", "NewRequest", "Do"}

\* C10: every call returns, having invoked each of parseID, client.NewRequest
\* and client.Do at most once, provided the collaborators return.
C10_EveryCallReturns ==
    /\ [](\A g \in Goroutines : \A fn \in {"parseID", "NewRequest", "Do"} :
            Len(Invocations(g, fn)) <= 1)
    /\ \A g \in Goroutines : Pending(g) ~> Returned(g)

C10_Witness ==
    \A g \in Goroutines :
        /\ Returned(g) /\ Order(g) = <<"parseID", "NewRequest", "Do">>
        /\ call[g].op \in {"ApproveMergeRequest", "UnapproveMergeRequest"}

====
